---- MODULE Spec2Model ----
(***************************************************************************)
(* Productization workflow of the Sage OS dashboard (SageOS component).    *)
(*                                                                         *)
(* The component keeps its state in React useState cells.  Every event     *)
(* handler and every continuation after an await runs to completion on    *)
(* the UI thread, so each is one action here.  A handler that awaits a     *)
(* remote call is an entry of `runs`, `rewriteCalls` or `globalRuns`: its  *)
(* position (pc) and the values its closure captured when it was invoked.  *)
(* Setters act on the current state; values read from the closure are the  *)
(* values of the render in which the handler was created.                  *)
(*                                                                         *)
(* The monetization tab can be opened at any moment (setActiveTab), so the *)
(* tab is not part of the state: every control below is reachable          *)
(* whenever its own rendering condition holds.                             *)
(***************************************************************************)
EXTENDS Integers, Sequences, FiniteSets, TLC

VARIABLES
    monetizeTopic,       \* useState('')           topic text, a sequence of code points
    lang,                \* useState('auto')       'auto' | 'ja' | 'en'
    monetizeStatus,      \* useState('idle')
    monetizeResult,      \* useState(null)         message / saved path
    researchCheck,       \* useState({status:'idle', file:null})
    researchDebounce,    \* useRef(null)           the pending debounce timer
    checkCalls,          \* research-check calls of the effect that are in flight
    runs,                \* handleD1ForTopic / runMonetizePipeline / handleFinalize in flight
    revertTimers,        \* pending setTimeout callbacks of the catch blocks
    generateData,        \* useState(null)
    editedSections,      \* useState([])
    editedSalesPage,     \* useState('')
    globalInstruction,   \* useState('')
    sectionInstructions, \* useState({})
    rewritingIdx,        \* useState(null)
    globalRewriting,     \* useState(false)
    expandedSection,     \* useState(null)
    rewriteCalls,        \* scoped rewrite handlers in flight
    globalRuns,          \* handleRewriteAll instances in flight
    settled              \* history: the rewrite call that settled in the last step

vars == <<monetizeTopic, lang, monetizeStatus, monetizeResult, researchCheck,
          researchDebounce, checkCalls, runs, revertTimers, generateData,
          editedSections, editedSalesPage, globalInstruction,
          sectionInstructions, rewritingIdx, globalRewriting, expandedSection,
          rewriteCalls, globalRuns, settled>>

gateVars == <<researchCheck, researchDebounce, checkCalls>>
flowVars == <<monetizeStatus, monetizeResult, runs, revertTimers>>
docVars == <<generateData, editedSections, editedSalesPage>>
reviewVars == <<globalInstruction, sectionInstructions, rewritingIdx,
                globalRewriting, expandedSection, rewriteCalls, globalRuns>>

(***************************************************************************)
(* Bounds of the model.                                                    *)
(***************************************************************************)
MaxChecks == 2      \* research-check calls of the effect in flight at once
MaxFlowChecks == 1  \* the same, in the specification of the whole workflow
MaxRuns == 2        \* workflow handlers in flight at once
MaxTimers == 1      \* pending auto-revert timers at once
MaxSections == 2    \* sections of a generated document
MaxRewrites == 2    \* scoped rewrite handlers in flight at once
MaxGlobal == 1      \* global rewrites whose calls are in flight at once
MaxOverlap == 2     \* the same, where a second one is let in

(***************************************************************************)
(* Text.  A string is the sequence of its code points.                     *)
(***************************************************************************)
TopicEmpty == <<>>
TopicBlank == <<32>>          \* " "
TopicEn == <<77>>             \* "M"
TopicJa == <<26397>>          \* one CJK ideograph
Topics == {TopicEmpty, TopicBlank, TopicEn, TopicJa}

\* Topics around the ends of the range U+3000..U+9FFF (line 175).
TopicBelow == <<12287>>       \* U+2FFF
TopicLow == <<12288>>         \* U+3000, the ideographic space
TopicHigh == <<40959>>        \* U+9FFF
TopicAbove == <<40960>>       \* U+A000
TopicMixed == <<77, 26397>>   \* "M" followed by an ideograph
LangTopics == {TopicEn, TopicJa, TopicBelow, TopicLow, TopicHigh, TopicAbove,
               TopicMixed}

\* String.prototype.trim: the white space and line terminator code points.
IsSpace(c) ==
    \/ c \in 9..13
    \/ c \in {32, 160, 5760, 8232, 8233, 8239, 8287, 12288, 65279}
    \/ c \in 8192..8202

RECURSIVE TrimStart(_)
TrimStart(s) ==
    IF s = <<>> THEN s
    ELSE IF IsSpace(Head(s)) THEN TrimStart(Tail(s)) ELSE s

RECURSIVE TrimEnd(_)
TrimEnd(s) ==
    IF s = <<>> THEN s
    ELSE IF IsSpace(s[Len(s)]) THEN TrimEnd(SubSeq(s, 1, Len(s) - 1)) ELSE s

Trim(s) == TrimEnd(TrimStart(s))

\* JavaScript truthiness of a string.
Truthy(s) == s # <<>>

(***************************************************************************)
(* Values.                                                                 *)
(***************************************************************************)
FileNull == "null"
FileName == "research.md"
Statuses == {"idle", "needs_research", "running_d1", "running", "review",
             "finalizing", "finalized", "error"}
ResultNull == "null"

GateIdle == [status |-> "idle", file |-> FileNull]
GateChecking == [status |-> "checking", file |-> FileNull]

\* A response of GET /api/research/check as the handlers read it.
CheckResponses ==
    {[has_research |-> FALSE, file |-> FileNull],
     [has_research |-> TRUE, file |-> FileNull],
     [has_research |-> TRUE, file |-> FileName]}

\* lines 87-90 and 117-120: the state set from a research-check response
GateOf(resp) ==
    [status |-> IF resp.has_research THEN "found" ELSE "missing",
     file |-> resp.file]

\* Content of a unit of the document.
Empty == <<>>
ContentOrig == <<111>>        \* what the execute call returned
ContentManual == <<109>>      \* what the operator typed into a textarea
ContentRewritten == <<114>>   \* res.data.rewritten of a rewrite call
TitleEdited == <<116>>
TitleOf(i) == <<64 + i>>

\* The payload of a successful POST /api/productize/execute with k sections.
DocOf(k, sales) ==
    [present |-> TRUE,
     sections |-> [i \in 1..k |-> [title |-> TitleOf(i), content |-> ContentOrig]],
     sales_page |-> sales]
Docs == {DocOf(k, sales) : k \in 0..MaxSections, sales \in {Empty, ContentOrig}}
NoDoc == [present |-> FALSE, sections |-> <<>>, sales_page |-> Empty]

\* A field the payload does not have reads as undefined.
Undefined == <<-1>>
\* The payloads of POST /api/productize/execute: with a sales page, with an
\* empty one, and without the field.
ExecPayloads == Docs \cup {DocOf(k, Undefined) : k \in 0..MaxSections}

\* x || '' without the fallback.
OrEmptyIdentity(x) == x

\* line 154: courseData.sales_page || ''
OrEmpty(x) == IF x = Undefined THEN Empty ELSE x

\* A unit of the document: section idx of the source is the unit idx + 1, the
\* key 'sales' is unit 0, and null (no unit) is -1.
SalesUnit == 0
NoUnit == -1
Units == 0..MaxSections

\* Instruction texts: '', " " and "x".
InstrBlank == <<32>>
InstrText == <<120>>

\* sectionInstructions: a missing key reads as '' at every use
\* (sectionInstructions[idx] || '', sectionInstructions[idx]?.trim()).
NoInstructions == [u \in Units |-> Empty]

\* lines 175, 193, 662, 675: a character in [\u3000-\u9fff]
HasJa(topic) == \E i \in 1..Len(topic) : topic[i] \in 12288..40959

Langs == {"auto", "ja", "en"}

ResolvedLangByTopic(l, topic) == IF HasJa(topic) THEN "ja" ELSE "en"

\* lines 175, 193, 662, 675: the language tag a rewrite call sends
ResolvedLang(l, topic) ==
    IF l = "auto" THEN (IF HasJa(topic) THEN "ja" ELSE "en") ELSE l

PlanNone == "none"
PlanPayload == "plan"

\* Outcomes of a remote call: a payload the handler accepts, a payload with
\* an error field, an empty body, or a rejected promise (transport failure).
Outcomes == {"ok", "app_error", "empty", "reject"}

\* A failure that leaves no message.
MsgNone(call) == ResultNull

\* The message a failed call leaves in monetizeResult (lines 125, 140, 148,
\* 160, 230, 233).  The text is the server's or the transport's; the model
\* keeps only which call it came from.
Msg(call) ==
    CASE call = "d1" -> "D1 failed"
      [] call = "plan" -> "Plan generation failed"
      [] call = "exec" -> "Course generation failed"
      [] OTHER -> "Finalize failed"
SavedPath == "saved_path"

(***************************************************************************)
(* Initial state: the values of the useState calls, after the first run of *)
(* the research-check effect (topic '' sets the Gate to idle).             *)
(***************************************************************************)
NoTimer == [pending |-> FALSE, topic |-> TopicEmpty]

\* `settled` names the call whose response the last step handled, and how it
\* settled; NoEvent after a step that handles no response or is not recorded.
NoEvent == [call |-> "none", unit |-> NoUnit, outcome |-> "none"]
Settled(call, unit, outcome) == [call |-> call, unit |-> unit, outcome |-> outcome]
Op(A) == A /\ settled' = NoEvent
\* A step that handles the response of a workflow call, recorded in `settled`.
Rec(A, call, outcome) == A /\ settled' = Settled(call, NoUnit, outcome)

\* Handlers in the same position with the same closure are interchangeable:
\* `copy` numbers them 1..n, the last one added being the first one removed.
Alike(S, r) == {q \in S : [q EXCEPT !.copy = 1] = [r EXCEPT !.copy = 1]}
Add(S, r) == S \cup {[r EXCEPT !.copy = Cardinality(Alike(S, r)) + 1]}
Remove(S, r) == S \ {[r EXCEPT !.copy = Cardinality(Alike(S, r))]}
Replace(S, r, q) == Add(Remove(S, r), q)

\* History: the operator has left the workflow these handlers belong to
\* (the code keeps no such mark).
RECURSIVE AbandonInto(_, _)
AbandonInto(S, acc) ==
    IF S = {} THEN acc
    ELSE LET r == CHOOSE q \in S : TRUE
         IN  AbandonInto(S \ {r}, Add(acc, [r EXCEPT !.abandoned = TRUE]))
AbandonAll(S) == AbandonInto(S, {})


Init ==
    /\ monetizeTopic = TopicEmpty
    /\ lang = "auto"
    /\ monetizeStatus = "idle"
    /\ monetizeResult = ResultNull
    /\ researchCheck = GateIdle
    /\ researchDebounce = NoTimer
    /\ checkCalls = [t \in Topics |-> 0]
    /\ runs = {}
    /\ revertTimers = [k \in {"idle", "review"} |-> 0]
    /\ generateData = NoDoc
    /\ editedSections = <<>>
    /\ editedSalesPage = Empty
    /\ globalInstruction = Empty
    /\ sectionInstructions = NoInstructions
    /\ rewritingIdx = NoUnit
    /\ globalRewriting = FALSE
    /\ expandedSection = NoUnit
    /\ rewriteCalls = {}
    /\ globalRuns = {}
    /\ settled = NoEvent

(***************************************************************************)
(* Research-Readiness Gate: the effect on [monetizeTopic], lines 76-96.    *)
(***************************************************************************)
\* The effect body without the trim of line 78.
TopicEffectUntrimmed(t) ==
    IF t = <<>>
    THEN /\ researchCheck' = GateIdle
         /\ researchDebounce' = NoTimer
    ELSE /\ researchCheck' = GateChecking
         /\ researchDebounce' = [pending |-> TRUE, topic |-> t]

\* The cleanup of the previous effect followed by the effect body for topic t.
TopicEffect(t) ==
    IF Trim(t) = <<>>
    THEN /\ researchCheck' = GateIdle
         /\ researchDebounce' = NoTimer
    ELSE /\ researchCheck' = GateChecking
         /\ researchDebounce' = [pending |-> TRUE, topic |-> t]

\* setMonetizeTopic(t): the effect runs only when the value changes.
SetTopic(t) ==
    /\ monetizeTopic' = t
    /\ IF t # monetizeTopic
       THEN TopicEffect(t)
       ELSE UNCHANGED <<researchCheck, researchDebounce>>
    /\ UNCHANGED checkCalls

\* The topic input's onChange (line 418).
EditTopic(T) ==
    \E t \in T :
        /\ t # monetizeTopic
        /\ SetTopic(t)
        /\ monetizeStatus' = "idle"
        /\ runs' = AbandonAll(runs)
        /\ UNCHANGED <<lang, monetizeResult, revertTimers>>
        /\ UNCHANGED docVars
        /\ UNCHANGED reviewVars

\* convertToProduct (lines 273-276): "Productize This" on a chat answer.
\* The content of a chat answer is never the empty string (lines 262, 268).
ConvertToProduct(T) ==
    \E t \in T \ {TopicEmpty} :
        /\ SetTopic(t)
        /\ UNCHANGED <<lang, flowVars>>
        /\ UNCHANGED docVars
        /\ UNCHANGED reviewVars

\* A button of the output language selector (line 431).
SetLang ==
    \E l \in Langs :
        /\ lang' = l
        /\ UNCHANGED <<monetizeTopic, gateVars, flowVars>>
        /\ UNCHANGED docVars
        /\ UNCHANGED reviewVars

ChecksInFlight == checkCalls[TopicEmpty] + checkCalls[TopicBlank]
                  + checkCalls[TopicEn] + checkCalls[TopicJa]

\* The debounce timer fires (lines 84-86): the lookup for the topic the
\* effect captured is issued.
DebounceFire(max) ==
    /\ researchDebounce.pending
    /\ ChecksInFlight < max
    /\ checkCalls' = [checkCalls EXCEPT ![researchDebounce.topic] = @ + 1]
    /\ researchDebounce' = NoTimer
    /\ UNCHANGED <<monetizeTopic, lang, researchCheck, flowVars>>
    /\ UNCHANGED docVars
    /\ UNCHANGED reviewVars

\* The lookup for topic t resolves (lines 87-90).
CheckResp ==
    \E t \in Topics, resp \in CheckResponses :
        /\ checkCalls[t] > 0
        /\ checkCalls' = [checkCalls EXCEPT ![t] = @ - 1]
        /\ researchCheck' = GateOf(resp)
        /\ UNCHANGED <<monetizeTopic, lang, researchDebounce, flowVars>>
        /\ UNCHANGED docVars
        /\ UNCHANGED reviewVars

\* The lookup for topic t is rejected (lines 91-93).
CheckFail ==
    \E t \in Topics :
        /\ checkCalls[t] > 0
        /\ checkCalls' = [checkCalls EXCEPT ![t] = @ - 1]
        /\ researchCheck' = GateIdle
        /\ UNCHANGED <<monetizeTopic, lang, researchDebounce, flowVars>>
        /\ UNCHANGED docVars
        /\ UNCHANGED reviewVars

(***************************************************************************)
(* Productization Orchestrator, lines 110-164 and 216-247.                 *)
(*                                                                         *)
(* A run is one invocation of handleD1ForTopic, runMonetizePipeline or     *)
(* handleFinalize that is suspended at an await.  `pc` is the call it       *)
(* awaits, and topic, lang, sections and sales_page are the values of its  *)
(* closure.                                                                *)
(***************************************************************************)
CanStartRun == Cardinality(runs) < MaxRuns

NewRun(pc) ==
    [copy |-> 1, pc |-> pc, topic |-> monetizeTopic, lang |-> lang,
     plan |-> PlanNone, sections |-> <<>>, sales_page |-> Empty,
     abandoned |-> FALSE]

\* line 491: the Generate button is rendered
GenerateVisible ==
    monetizeStatus \notin {"needs_research", "review", "finalizing", "finalized"}

\* The disabled attribute without its status test.
GenerateDisabledByTopicOnly == ~Truthy(monetizeTopic)

\* line 494: the Generate button's disabled attribute
GenerateDisabled ==
    ~Truthy(monetizeTopic) \/ monetizeStatus \in {"running", "running_d1"}

\* line 242: handleMonetize stops at the prompt instead of generating
GateBlocks == researchCheck.status = "missing"

\* line 518: the Review & Edit panel is rendered
ReviewVisible ==
    monetizeStatus \in {"review", "finalizing", "finalized"} /\ generateData.present

\* lines 136-139: runMonetizePipeline up to its first await, invoked now
StartPipeline ==
    /\ CanStartRun
    /\ monetizeStatus' = "running"
    /\ monetizeResult' = ResultNull
    /\ runs' = Add(runs, NewRun("plan"))
    /\ UNCHANGED revertTimers

\* A catch block whose timer always reverts to idle.
FailToIdle(r, call, timer) ==
    /\ revertTimers["idle"] + revertTimers["review"] < MaxTimers
    /\ monetizeResult' = Msg(call)
    /\ monetizeStatus' = "error"
    /\ revertTimers' = [revertTimers EXCEPT !["idle"] = @ + 1]
    /\ runs' = Remove(runs, r)

\* lines 158-163, 123-127, 232-236: a catch block; the timer it sets
Fail(r, call, timer) ==
    /\ revertTimers["idle"] + revertTimers["review"] < MaxTimers
    /\ monetizeResult' = Msg(call)
    /\ monetizeStatus' = "error"
    /\ revertTimers' = [revertTimers EXCEPT ![timer] = @ + 1]
    /\ runs' = Remove(runs, r)

\* The Generate button's onClick: handleMonetize (lines 240-247).
ClickGenerate ==
    /\ GenerateVisible
    /\ ~GenerateDisabled
    /\ IF GateBlocks
       THEN /\ monetizeStatus' = "needs_research"
            /\ UNCHANGED <<monetizeResult, runs, revertTimers>>
       ELSE StartPipeline
    /\ UNCHANGED <<monetizeTopic, lang, gateVars>>
    /\ UNCHANGED docVars
    /\ UNCHANGED reviewVars

\* The prompt's first button: handleD1ForTopic up to its first await
\* (lines 111-114).
ClickRunResearch ==
    /\ monetizeStatus = "needs_research"
    /\ CanStartRun
    /\ monetizeStatus' = "running_d1"
    /\ runs' = Add(runs, NewRun("d1"))
    /\ UNCHANGED <<monetizeTopic, lang, gateVars, monetizeResult, revertTimers>>
    /\ UNCHANGED docVars
    /\ UNCHANGED reviewVars

\* The prompt's second button: runMonetizePipeline (line 481).
ClickProceedAnyway ==
    /\ monetizeStatus = "needs_research"
    /\ StartPipeline
    /\ UNCHANGED <<monetizeTopic, lang, gateVars>>
    /\ UNCHANGED docVars
    /\ UNCHANGED reviewVars

\* Outcomes of POST /api/d1/generate: its payload is never read (line 114).
D1Outcomes == {"ok", "reject"}

\* POST /api/d1/generate settles with `outcome` (lines 114-116, 123-127).
D1Settles(outcome) ==
    \E r \in runs :
        /\ r.pc = "d1" /\ r.copy = 1
        /\ IF outcome = "ok"
           THEN /\ runs' = Replace(runs, r, [r EXCEPT !.pc = "recheck"])
                /\ UNCHANGED <<monetizeStatus, monetizeResult, revertTimers>>
           ELSE Fail(r, "d1", "idle")
        /\ UNCHANGED <<monetizeTopic, lang, gateVars>>
        /\ UNCHANGED docVars
        /\ UNCHANGED reviewVars

D1Resp == \E outcome \in D1Outcomes : D1Settles(outcome)

\* The re-check of handleD1ForTopic resolves (lines 116-122): the Gate is
\* set and the closure's runMonetizePipeline runs up to its first await.
RecheckResp ==
    \E r \in runs, resp \in CheckResponses :
        /\ r.pc = "recheck" /\ r.copy = 1
        /\ researchCheck' = GateOf(resp)
        /\ monetizeStatus' = "running"
        /\ monetizeResult' = ResultNull
        /\ runs' = Replace(runs, r, [r EXCEPT !.pc = "plan"])
        /\ UNCHANGED <<monetizeTopic, lang, researchDebounce, checkCalls, revertTimers>>
        /\ UNCHANGED docVars
        /\ UNCHANGED reviewVars

\* The re-check of handleD1ForTopic is rejected (lines 123-127).
RecheckFail ==
    \E r \in runs :
        /\ r.pc = "recheck" /\ r.copy = 1
        /\ Fail(r, "d1", "idle")
        /\ UNCHANGED <<monetizeTopic, lang, gateVars>>
        /\ UNCHANGED docVars
        /\ UNCHANGED reviewVars

\* The plan call's response handled without the test of line 140.
PlanSettlesUnchecked(outcome) ==
    \E r \in runs :
        /\ r.pc = "plan" /\ r.copy = 1
        /\ runs' = Replace(runs, r, [r EXCEPT !.pc = "exec", !.plan = PlanPayload])
        /\ UNCHANGED <<monetizeStatus, monetizeResult, revertTimers>>
        /\ UNCHANGED <<monetizeTopic, lang, gateVars>>
        /\ UNCHANGED docVars
        /\ UNCHANGED reviewVars

\* POST /api/productize settles with `outcome` (lines 139-147, 158-163).
PlanSettles(outcome) ==
    \E r \in runs :
        /\ r.pc = "plan" /\ r.copy = 1
        /\ IF outcome = "ok"
           THEN /\ runs' = Replace(runs, r,
                                   [r EXCEPT !.pc = "exec", !.plan = PlanPayload])
                /\ UNCHANGED <<monetizeStatus, monetizeResult, revertTimers>>
           ELSE Fail(r, "plan", "idle")
        /\ UNCHANGED <<monetizeTopic, lang, gateVars>>
        /\ UNCHANGED docVars
        /\ UNCHANGED reviewVars

PlanResp == \E outcome \in Outcomes : PlanSettles(outcome)

\* POST /api/productize/execute resolves with a course (lines 148-157).
ExecOk(D) ==
    \E r \in runs, courseData \in D :
        /\ r.pc = "exec" /\ r.copy = 1
        /\ generateData' = courseData
        /\ editedSections' = courseData.sections
        /\ editedSalesPage' = OrEmpty(courseData.sales_page)
        /\ sectionInstructions' = NoInstructions
        /\ expandedSection' = 1
        /\ monetizeStatus' = "review"
        /\ runs' = Remove(runs, r)
        /\ UNCHANGED <<monetizeTopic, lang, gateVars, monetizeResult, revertTimers>>
        /\ UNCHANGED <<globalInstruction, rewritingIdx, globalRewriting,
                       rewriteCalls, globalRuns>>

\* POST /api/productize/execute fails with `outcome` (lines 148, 158-163).
ExecFails(outcome) ==
    \E r \in runs :
        /\ outcome # "ok"
        /\ r.pc = "exec" /\ r.copy = 1
        /\ Fail(r, "exec", "idle")
        /\ UNCHANGED <<monetizeTopic, lang, gateVars>>
        /\ UNCHANGED docVars
        /\ UNCHANGED reviewVars

ExecFail == \E outcome \in Outcomes : ExecFails(outcome)

\* lines 692-696: the Finalize button is rendered and enabled
FinalizeEnabled ==
    /\ ReviewVisible
    /\ monetizeStatus # "finalized"
    /\ monetizeStatus # "finalizing"

\* A finalize that sends the course as generated instead of as edited.
ClickFinalizeAsGenerated ==
    /\ FinalizeEnabled
    /\ CanStartRun
    /\ monetizeStatus' = "finalizing"
    /\ runs' = Add(runs, [NewRun("finalize") EXCEPT
                                !.sections = generateData.sections,
                                !.sales_page = OrEmpty(generateData.sales_page)])
    /\ UNCHANGED <<monetizeTopic, lang, gateVars, monetizeResult, revertTimers>>
    /\ UNCHANGED docVars
    /\ UNCHANGED reviewVars

\* The Finalize button's onClick: handleFinalize up to its await
\* (lines 217-225).
ClickFinalize ==
    /\ FinalizeEnabled
    /\ CanStartRun
    /\ monetizeStatus' = "finalizing"
    /\ runs' = Add(runs, [NewRun("finalize") EXCEPT
                                !.sections = editedSections,
                                !.sales_page = editedSalesPage])
    /\ UNCHANGED <<monetizeTopic, lang, gateVars, monetizeResult, revertTimers>>
    /\ UNCHANGED docVars
    /\ UNCHANGED reviewVars

\* POST /api/productize/finalize settles with `outcome` (lines 226-236).
FinalizeSettles(outcome) ==
    \E r \in runs :
        /\ r.pc = "finalize" /\ r.copy = 1
        /\ IF outcome = "ok"
           THEN /\ monetizeResult' = SavedPath
                /\ monetizeStatus' = "finalized"
                /\ runs' = Remove(runs, r)
                /\ UNCHANGED revertTimers
           ELSE Fail(r, "finalize", "review")
        /\ UNCHANGED <<monetizeTopic, lang, gateVars>>
        /\ UNCHANGED docVars
        /\ UNCHANGED reviewVars

FinalizeResp == \E outcome \in Outcomes : FinalizeSettles(outcome)

\* A callback that clears the message and leaves the status alone.
RevertTimerKeepsStatus(timer) ==
        /\ revertTimers[timer] > 0
        /\ revertTimers' = [revertTimers EXCEPT ![timer] = @ - 1]
        /\ monetizeResult' = ResultNull
        /\ UNCHANGED <<monetizeTopic, lang, gateVars, runs, monetizeStatus>>
        /\ UNCHANGED docVars
        /\ UNCHANGED reviewVars

\* The setTimeout callback of a catch block runs: to idle (lines 126, 162)
\* or to review (line 235).
RevertTimerOf(timer) ==
        /\ revertTimers[timer] > 0
        /\ revertTimers' = [revertTimers EXCEPT ![timer] = @ - 1]
        /\ monetizeStatus' = timer
        /\ monetizeResult' = ResultNull
        /\ UNCHANGED <<monetizeTopic, lang, gateVars, runs>>
        /\ UNCHANGED docVars
        /\ UNCHANGED reviewVars

RevertTimer == \E timer \in {"idle", "review"} : RevertTimerOf(timer)

\* The panel's start-over button (line 535).
ClickStartOver ==
    /\ ReviewVisible
    /\ monetizeStatus' = "idle"
    /\ generateData' = NoDoc
    /\ runs' = AbandonAll(runs)
    /\ UNCHANGED <<monetizeTopic, lang, gateVars, monetizeResult, revertTimers>>
    /\ UNCHANGED <<editedSections, editedSalesPage>>
    /\ UNCHANGED reviewVars

\* The finalized bar's new-product button (line 709).
ClickNewProduct ==
    /\ ReviewVisible
    /\ monetizeStatus = "finalized"
    /\ monetizeStatus' = "idle"
    /\ generateData' = NoDoc
    /\ monetizeResult' = ResultNull
    /\ runs' = AbandonAll(runs)
    /\ UNCHANGED <<monetizeTopic, lang, gateVars, revertTimers>>
    /\ UNCHANGED <<editedSections, editedSalesPage>>
    /\ UNCHANGED reviewVars

\* The workflow with one topic that is entered, cleared and entered again,
\* and a generated course of one section and a sales page.
FlowTopics == {TopicEmpty, TopicEn}
FlowDocs == {DocOf(1, ContentOrig)}

NextFlow ==
    \/ Op(EditTopic(FlowTopics))
    \/ Op(DebounceFire(MaxFlowChecks))
    \/ Op(CheckResp)
    \/ Op(CheckFail)
    \/ Op(ClickGenerate)
    \/ Op(ClickRunResearch)
    \/ Op(ClickProceedAnyway)
    \/ Op(D1Resp)
    \/ Op(RecheckResp)
    \/ Op(RecheckFail)
    \/ Op(PlanResp)
    \/ Op(ExecOk(FlowDocs))
    \/ Op(ExecFail)
    \/ Op(ClickFinalize)
    \/ Op(FinalizeResp)
    \/ Op(RevertTimer)
    \/ Op(ClickStartOver)
    \/ Op(ClickNewProduct)

SpecFlow == Init /\ [][NextFlow]_vars

(***************************************************************************)
(* Review & Edit: lines 166-214 and 517-717.                               *)
(***************************************************************************)
\* line 576: the editor of section unit u is rendered; line 592: expanded
SectionShown(u) == ReviewVisible /\ u \in 1..Len(editedSections)
SectionOpen(u) == SectionShown(u) /\ expandedSection = u

\* lines 637, 646: the sales page editor is rendered; expanded
SalesShown == ReviewVisible /\ Truthy(editedSalesPage)
SalesOpen == SalesShown /\ expandedSection = SalesUnit

\* The header of a unit's editor (lines 581, 641).
ToggleExpand ==
    \E u \in Units :
        /\ IF u = SalesUnit THEN SalesShown ELSE SectionShown(u)
        /\ expandedSection' = IF expandedSection = u THEN NoUnit ELSE u
        /\ UNCHANGED <<monetizeTopic, lang, gateVars, flowVars>>
        /\ UNCHANGED docVars
        /\ UNCHANGED <<globalInstruction, sectionInstructions, rewritingIdx,
                       globalRewriting, rewriteCalls, globalRuns>>

\* A unit's instruction input (lines 614, 658).
EditInstruction(I) ==
    \E u \in Units, v \in I :
        /\ IF u = SalesUnit THEN SalesOpen ELSE SectionOpen(u)
        /\ v # sectionInstructions[u]
        /\ sectionInstructions' = [sectionInstructions EXCEPT ![u] = v]
        /\ UNCHANGED <<monetizeTopic, lang, gateVars, flowVars>>
        /\ UNCHANGED docVars
        /\ UNCHANGED <<globalInstruction, rewritingIdx, globalRewriting,
                       expandedSection, rewriteCalls, globalRuns>>

\* The global instruction input and the preset buttons (lines 549, 566).
EditGlobalInstruction(I) ==
    \E v \in I :
        /\ ReviewVisible
        /\ v # globalInstruction
        /\ globalInstruction' = v
        /\ UNCHANGED <<monetizeTopic, lang, gateVars, flowVars>>
        /\ UNCHANGED docVars
        /\ UNCHANGED <<sectionInstructions, rewritingIdx, globalRewriting,
                       expandedSection, rewriteCalls, globalRuns>>

\* The update of a section without the spread of its other fields.
SetContentOnly(secs, u, c) ==
    [i \in 1..Len(secs) |->
        IF i = u THEN [title |-> Empty, content |-> c] ELSE secs[i]]

\* prev.map((s, i) => i === idx ? { ...s, content } : s)  (lines 178, 605)
SetContent(secs, u, c) ==
    [i \in 1..Len(secs) |-> IF i = u THEN [secs[i] EXCEPT !.content = c] ELSE secs[i]]

\* prev.map((s, i) => i === idx ? { ...s, title } : s)  (line 598)
SetTitle(secs, u, t) ==
    [i \in 1..Len(secs) |-> IF i = u THEN [secs[i] EXCEPT !.title = t] ELSE secs[i]]

\* A section's content textarea (line 605).
EditContent ==
    \E u \in Units :
        /\ SectionOpen(u)
        /\ editedSections[u].content # ContentManual
        /\ editedSections' = SetContent(editedSections, u, ContentManual)
        /\ UNCHANGED <<monetizeTopic, lang, gateVars, flowVars>>
        /\ UNCHANGED <<generateData, editedSalesPage>>
        /\ UNCHANGED reviewVars

\* A section's title input (line 598).
EditTitle ==
    \E u \in Units :
        /\ SectionOpen(u)
        /\ editedSections[u].title # TitleEdited
        /\ editedSections' = SetTitle(editedSections, u, TitleEdited)
        /\ UNCHANGED <<monetizeTopic, lang, gateVars, flowVars>>
        /\ UNCHANGED <<generateData, editedSalesPage>>
        /\ UNCHANGED reviewVars

\* The sales page textarea (line 650).
EditSalesPage ==
    /\ SalesOpen
    /\ editedSalesPage # ContentManual
    /\ editedSalesPage' = ContentManual
    /\ UNCHANGED <<monetizeTopic, lang, gateVars, flowVars>>
    /\ UNCHANGED <<generateData, editedSections>>
    /\ UNCHANGED reviewVars

(***************************************************************************)
(* Scoped rewrite.  A rewrite call is one invocation of                    *)
(* handleRewriteSection, or of a sales-page handler, suspended at its      *)
(* await, with the request it sent.                                        *)
(***************************************************************************)
CanStartRewrite == Cardinality(rewriteCalls) < MaxRewrites

\* line 621 and line 671: the unit's rewrite button is disabled
RewriteDisabled(u) == Trim(sectionInstructions[u]) = <<>> \/ rewritingIdx = u

\* lines 168-176: handleRewriteSection(idx) up to its await
StartRewriteSection(u) ==
    /\ Trim(sectionInstructions[u]) # <<>>
    /\ CanStartRewrite
    /\ rewritingIdx' = u
    /\ rewriteCalls' = Add(rewriteCalls,
           [copy |-> 1, unit |-> u, content |-> editedSections[u].content,
            instruction |-> sectionInstructions[u],
            language |-> ResolvedLang(lang, monetizeTopic)])
    /\ UNCHANGED <<monetizeTopic, lang, gateVars, flowVars>>
    /\ UNCHANGED docVars
    /\ UNCHANGED <<globalInstruction, sectionInstructions, globalRewriting,
                   expandedSection, globalRuns>>

\* A section's rewrite button (lines 619-621).
ClickRewriteSection ==
    \E u \in 1..MaxSections :
        /\ SectionOpen(u)
        /\ ~RewriteDisabled(u)
        /\ StartRewriteSection(u)

\* Enter in a section's instruction input (line 615).
EnterRewriteSection ==
    \E u \in 1..MaxSections :
        /\ SectionOpen(u)
        /\ StartRewriteSection(u)

\* lines 660-663 and 673-676: a sales-page handler up to its await
StartRewriteSales ==
    /\ Trim(sectionInstructions[SalesUnit]) # <<>>
    /\ CanStartRewrite
    /\ rewritingIdx' = SalesUnit
    /\ rewriteCalls' = Add(rewriteCalls,
           [copy |-> 1, unit |-> SalesUnit, content |-> editedSalesPage,
            instruction |-> sectionInstructions[SalesUnit],
            language |-> ResolvedLang(lang, monetizeTopic)])
    /\ UNCHANGED <<monetizeTopic, lang, gateVars, flowVars>>
    /\ UNCHANGED docVars
    /\ UNCHANGED <<globalInstruction, sectionInstructions, globalRewriting,
                   expandedSection, globalRuns>>

\* The sales page's rewrite button (lines 670-679).
ClickRewriteSales ==
    /\ SalesOpen
    /\ ~RewriteDisabled(SalesUnit)
    /\ StartRewriteSales

\* Enter in the sales page's instruction input (lines 659-666).
EnterRewriteSales ==
    /\ SalesOpen
    /\ StartRewriteSales

\* Outcomes of POST /api/productize/rewrite: status 'success', another
\* payload, or a rejected promise.
RewriteOutcomes == {"success", "nonsuccess", "reject"}

\* The section update without its test of the response's status.
SectionsAfterAnyOutcome(secs, u, outcome) == SetContent(secs, u, ContentRewritten)

\* lines 177-180: what a section rewrite's response does to the sections
SectionsAfter(secs, u, outcome) ==
    IF outcome = "success" THEN SetContent(secs, u, ContentRewritten) ELSE secs

\* A section rewrite settles (lines 177-185).
RewriteSectionResp ==
    \E c \in rewriteCalls, outcome \in RewriteOutcomes :
        /\ c.unit # SalesUnit /\ c.copy = 1
        /\ settled' = Settled("section", c.unit, outcome)
        /\ editedSections' = SectionsAfter(editedSections, c.unit, outcome)
        /\ sectionInstructions' =
               IF outcome = "success"
               THEN [sectionInstructions EXCEPT ![c.unit] = Empty]
               ELSE sectionInstructions
        /\ rewritingIdx' = NoUnit
        /\ rewriteCalls' = Remove(rewriteCalls, c)
        /\ UNCHANGED <<monetizeTopic, lang, gateVars, flowVars>>
        /\ UNCHANGED <<generateData, editedSalesPage>>
        /\ UNCHANGED <<globalInstruction, globalRewriting, expandedSection, globalRuns>>

\* A sales-page rewrite settles (lines 663-665, 676-678).  The handlers have
\* no try: after a rejection nothing of the handler runs.
RewriteSalesResp ==
    \E c \in rewriteCalls, outcome \in RewriteOutcomes :
        /\ c.unit = SalesUnit /\ c.copy = 1
        /\ settled' = Settled("sales", SalesUnit, outcome)
        /\ editedSalesPage' =
               IF outcome = "success" THEN ContentRewritten ELSE editedSalesPage
        /\ sectionInstructions' =
               IF outcome = "success"
               THEN [sectionInstructions EXCEPT ![SalesUnit] = Empty]
               ELSE sectionInstructions
        /\ rewritingIdx' = IF outcome = "reject" THEN rewritingIdx ELSE NoUnit
        /\ rewriteCalls' = Remove(rewriteCalls, c)
        /\ UNCHANGED <<monetizeTopic, lang, gateVars, flowVars>>
        /\ UNCHANGED <<generateData, editedSections>>
        /\ UNCHANGED <<globalInstruction, globalRewriting, expandedSection, globalRuns>>

(***************************************************************************)
(* Global rewrite: handleRewriteAll, lines 189-214.  `results` is what     *)
(* Promise.all has collected, `sections` and `sales_page` are the values   *)
(* of the closure.  After a rejection Promise.all drops the responses that *)
(* are still to come: the instance stays, with pc "rejected", for as long  *)
(* as calls of it are in flight.                                           *)
(***************************************************************************)
CanStartGlobalUpTo(max) == Cardinality(globalRuns) < max
CanStartGlobal == CanStartGlobalUpTo(MaxGlobal)

\* line 556: the global rewrite button is disabled
GlobalDisabled == Trim(globalInstruction) = <<>> \/ globalRewriting

Pending(g) == {i \in 1..Len(g.results) : g.results[i] = "pending"}

\* lines 199-201: prev.map((s, i) => rewrites[i] succeeded ? rewritten : s)
ApplyAll(secs, results) ==
    [i \in 1..Len(secs) |->
        IF i <= Len(results) /\ results[i] = "success"
        THEN [secs[i] EXCEPT !.content = ContentRewritten]
        ELSE secs[i]]

\* lines 208 and 212: the handler ends normally
GlobalDone ==
    /\ globalInstruction' = Empty
    /\ globalRewriting' = FALSE

\* lines 190-198: handleRewriteAll up to its first await.  With no section
\* Promise.all([]) is already resolved and lines 199-212 follow at once.
StartRewriteAllUpTo(max) ==
    /\ Trim(globalInstruction) # <<>>
    /\ CanStartGlobalUpTo(max)
    /\ LET g == [copy |-> 1,
                 pc |-> IF Len(editedSections) > 0 THEN "sections" ELSE "sales",
                 results |-> [i \in 1..Len(editedSections) |-> "pending"],
                 sections |-> editedSections,
                 sales_page |-> editedSalesPage,
                 instruction |-> globalInstruction,
                 language |-> ResolvedLang(lang, monetizeTopic)]
       IN  IF Len(editedSections) = 0 /\ ~Truthy(editedSalesPage)
           THEN /\ GlobalDone
                /\ UNCHANGED globalRuns
           ELSE /\ globalRewriting' = TRUE
                /\ globalRuns' = Add(globalRuns, g)
                /\ UNCHANGED globalInstruction
    /\ UNCHANGED <<monetizeTopic, lang, gateVars, flowVars>>
    /\ UNCHANGED docVars
    /\ UNCHANGED <<sectionInstructions, rewritingIdx, expandedSection, rewriteCalls>>

StartRewriteAll == StartRewriteAllUpTo(MaxGlobal)

\* The global rewrite button (lines 554-556).
ClickRewriteAllUpTo(max) ==
    /\ ReviewVisible
    /\ ~GlobalDisabled
    /\ StartRewriteAllUpTo(max)

ClickRewriteAll == ClickRewriteAllUpTo(MaxGlobal)

\* Enter in the global instruction input (line 550).
EnterRewriteAllUpTo(max) ==
    /\ ReviewVisible
    /\ StartRewriteAllUpTo(max)

EnterRewriteAll == EnterRewriteAllUpTo(MaxGlobal)

\* What Promise.all does when the call of section i settles with `outcome`
\* (lines 194-198): "wait", "resolve" or "reject".
AllSettles(g, i, outcome) ==
    IF outcome = "reject" THEN "reject"
    ELSE IF Pending(g) = {i} THEN "resolve" ELSE "wait"

\* One section call of a global rewrite settles (lines 194-212).
GlobalSectionResp ==
    \E g \in globalRuns, outcome \in RewriteOutcomes :
      \E i \in Pending(g) :
        LET h == [g EXCEPT !.results[i] = outcome]
            all == AllSettles(g, i, outcome)
        IN
        /\ g.copy = 1
        /\ g.pc \in {"sections", "rejected"}
        /\ settled' = Settled("global", i, outcome)
        /\ CASE g.pc = "rejected" ->
                  /\ globalRuns' = IF Pending(h) = {}
                                   THEN Remove(globalRuns, g)
                                   ELSE Replace(globalRuns, g, h)
                  /\ UNCHANGED <<editedSections, globalInstruction, globalRewriting>>
             [] g.pc = "sections" /\ all = "reject" ->
                  /\ globalRewriting' = FALSE
                  /\ globalRuns' = IF Pending(h) = {}
                                   THEN Remove(globalRuns, g)
                                   ELSE Replace(globalRuns, g, [h EXCEPT !.pc = "rejected"])
                  /\ UNCHANGED <<editedSections, globalInstruction>>
             [] g.pc = "sections" /\ all = "wait" ->
                  /\ globalRuns' = Replace(globalRuns, g, h)
                  /\ UNCHANGED <<editedSections, globalInstruction, globalRewriting>>
             [] OTHER ->
                  /\ editedSections' = ApplyAll(editedSections, h.results)
                  /\ IF Truthy(g.sales_page)
                     THEN /\ globalRuns' = Replace(globalRuns, g, [h EXCEPT !.pc = "sales"])
                          /\ UNCHANGED <<globalInstruction, globalRewriting>>
                     ELSE /\ globalRuns' = Remove(globalRuns, g)
                          /\ GlobalDone
        /\ UNCHANGED <<monetizeTopic, lang, gateVars, flowVars>>
        /\ UNCHANGED <<generateData, editedSalesPage>>
        /\ UNCHANGED <<sectionInstructions, rewritingIdx, expandedSection, rewriteCalls>>

\* The sales-page call of a global rewrite settles (lines 203-212).
GlobalSalesResp ==
    \E g \in globalRuns, outcome \in RewriteOutcomes :
        /\ g.copy = 1
        /\ g.pc = "sales"
        /\ settled' = Settled("global", SalesUnit, outcome)
        /\ editedSalesPage' =
               IF outcome = "success" THEN ContentRewritten ELSE editedSalesPage
        /\ IF outcome = "reject"
           THEN /\ globalRewriting' = FALSE
                /\ UNCHANGED globalInstruction
           ELSE GlobalDone
        /\ globalRuns' = Remove(globalRuns, g)
        /\ UNCHANGED <<monetizeTopic, lang, gateVars, flowVars>>
        /\ UNCHANGED <<generateData, editedSections>>
        /\ UNCHANGED <<sectionInstructions, rewritingIdx, expandedSection, rewriteCalls>>

(***************************************************************************)
(* A Review session: the state in which ExecOk leaves the workflow when    *)
(* the topic's research was found and nothing else is in flight.           *)
(***************************************************************************)
InitReviewOpen(D, U) ==
    /\ monetizeTopic = TopicEn
    /\ lang = "auto"
    /\ monetizeStatus = "review"
    /\ monetizeResult = ResultNull
    /\ researchCheck = [status |-> "found", file |-> FileName]
    /\ researchDebounce = NoTimer
    /\ checkCalls = [t \in Topics |-> 0]
    /\ runs = {}
    /\ revertTimers = [k \in {"idle", "review"} |-> 0]
    /\ generateData \in D
    /\ editedSections = generateData.sections
    /\ editedSalesPage = generateData.sales_page
    /\ globalInstruction = Empty
    /\ sectionInstructions = NoInstructions
    /\ rewritingIdx = NoUnit
    /\ globalRewriting = FALSE
    /\ expandedSection \in U
    /\ rewriteCalls = {}
    /\ globalRuns = {}
    /\ settled = NoEvent

InitReview(D) == InitReviewOpen(D, {1})

Instructions == {Empty, InstrText}

\* Rewrites of single sections, and manual edits, in a Review session.
NextSections ==
    \/ Op(ToggleExpand)
    \/ Op(EditInstruction(Instructions))
    \/ Op(EditContent)
    \/ Op(ClickRewriteSection)
    \/ Op(EnterRewriteSection)
    \/ RewriteSectionResp

SpecSections ==
    InitReview({DocOf(MaxSections, ContentOrig)}) /\ [][NextSections]_vars

\* Scoped rewrites of every unit in a Review session.
NextScoped ==
    \/ Op(ToggleExpand)
    \/ Op(EditInstruction(Instructions))
    \/ Op(ClickRewriteSection)
    \/ Op(EnterRewriteSection)
    \/ Op(ClickRewriteSales)
    \/ Op(EnterRewriteSales)
    \/ RewriteSectionResp
    \/ RewriteSalesResp

SpecScoped == InitReview(Docs) /\ [][NextScoped]_vars

\* Global rewrites in a Review session.
NextGlobal ==
    \/ Op(EditGlobalInstruction(Instructions))
    \/ Op(ClickRewriteAll)
    \/ Op(EnterRewriteAll)
    \/ GlobalSectionResp
    \/ GlobalSalesResp
    \/ Op(ToggleExpand)
    \/ Op(EditContent)
    \/ Op(EditSalesPage)

SpecGlobal == InitReview(Docs) /\ [][NextGlobal]_vars

\* Finalization of a Review session while sections are rewritten.
NextFinalize ==
    \/ Op(EditInstruction(Instructions))
    \/ Op(EditContent)
    \/ Op(ClickRewriteSection)
    \/ RewriteSectionResp
    \/ Op(ClickFinalize)
    \/ Op(FinalizeResp)
    \/ Op(RevertTimer)
    \/ Op(ClickStartOver)
    \/ Op(ClickNewProduct)

SpecFinalize == InitReview(Docs) /\ [][NextFinalize]_vars

NextGate ==
    \/ Op(EditTopic(Topics))
    \/ Op(ConvertToProduct(Topics))
    \/ Op(DebounceFire(MaxChecks))
    \/ Op(CheckResp)
    \/ Op(CheckFail)

SpecGate == Init /\ [][NextGate]_vars

\* Finalizing an edited course: the document is edited, finalized, and the
\* finalize call's outcome is recorded.
NextPersist ==
    \/ Op(ToggleExpand)
    \/ Op(EditContent)
    \/ Op(EditSalesPage)
    \/ Op(ClickFinalize)
    \/ \E o \in Outcomes : Rec(FinalizeSettles(o), "finalize", o)
    \/ Op(RevertTimer)
    \/ Op(ClickStartOver)
    \/ Op(ClickNewProduct)

SpecPersist == InitReview(Docs) /\ [][NextPersist]_vars

\* One topic taken through research and generation, with every response of
\* a workflow call recorded.
RunTopics == {TopicEn}

NextRun ==
    \/ Op(EditTopic(RunTopics))
    \/ Op(DebounceFire(MaxFlowChecks))
    \/ Op(CheckResp)
    \/ Op(CheckFail)
    \/ Op(ClickGenerate)
    \/ Op(ClickRunResearch)
    \/ Op(ClickProceedAnyway)
    \/ \E o \in D1Outcomes : Rec(D1Settles(o), "d1", o)
    \/ Rec(RecheckResp, "recheck", "ok")
    \/ Rec(RecheckFail, "recheck", "reject")
    \/ \E o \in Outcomes : Rec(PlanSettles(o), "plan", o)
    \/ Rec(ExecOk(ExecPayloads), "exec", "ok")
    \/ \E o \in Outcomes : Rec(ExecFails(o), "exec", o)
    \/ Op(RevertTimerOf("idle"))

SpecRun == Init /\ [][NextRun]_vars

\* The same topic through research, generation and finalize.  A timer set by
\* setTimeout fires once its delay has passed: the two revert timers are the
\* only steps that must eventually happen.
NextRecover ==
    \/ Op(EditTopic(RunTopics))
    \/ Op(DebounceFire(MaxFlowChecks))
    \/ Op(CheckResp)
    \/ Op(ClickGenerate)
    \/ Op(ClickRunResearch)
    \/ Op(D1Resp)
    \/ Op(RecheckResp)
    \/ Op(RecheckFail)
    \/ Op(PlanResp)
    \/ Op(ExecOk(FlowDocs))
    \/ Op(ExecFail)
    \/ Op(ClickFinalize)
    \/ Op(FinalizeResp)
    \/ Op(RevertTimerOf("idle"))
    \/ Op(RevertTimerOf("review"))

SpecRecover ==
    /\ Init
    /\ [][NextRecover]_vars
    /\ WF_vars(Op(RevertTimerOf("idle")))
    /\ WF_vars(Op(RevertTimerOf("review")))

\* Global rewrites only, with room for a second one while the first is
\* outstanding.
NextBusy ==
    \/ Op(EditGlobalInstruction(Instructions))
    \/ Op(ClickRewriteAllUpTo(MaxOverlap))
    \/ Op(EnterRewriteAllUpTo(MaxOverlap))
    \/ GlobalSectionResp
    \/ GlobalSalesResp

SpecBusy == InitReview(Docs) /\ [][NextBusy]_vars

\* Review sessions one after the other: instructions are typed, the operator
\* starts over and generates again.
NextSessions ==
    \/ Op(ToggleExpand)
    \/ Op(EditGlobalInstruction(Instructions))
    \/ Op(EditInstruction(Instructions))
    \/ Op(EditContent)
    \/ Op(ClickStartOver)
    \/ Op(ClickGenerate)
    \/ Op(PlanResp)
    \/ Rec(ExecOk(FlowDocs), "exec", "ok")
    \/ Op(ExecFail)
    \/ Op(RevertTimer)

SpecSessions == InitReview(FlowDocs) /\ [][NextSessions]_vars

\* One Review session of a course of two sections without a sales page, with
\* either section open: the open section is edited by hand and rewritten, and
\* the whole course is rewritten, the responses arriving in any order.
NextEdits ==
    \/ Op(EditTitle)
    \/ Op(EditContent)
    \/ Op(EditInstruction({InstrText}))
    \/ Op(ClickRewriteSection)
    \/ RewriteSectionResp
    \/ Op(EditGlobalInstruction({InstrText}))
    \/ Op(ClickRewriteAll)
    \/ GlobalSectionResp

EditDocs == {DocOf(2, Empty)}
SpecEdits == InitReviewOpen(EditDocs, {1, 2}) /\ [][NextEdits]_vars

\* One Review session in which the output language and the topic change
\* between the requests of rewrites of every kind, up to the moment their
\* calls are in flight.
NextLang ==
    \/ Op(SetLang)
    \/ Op(ConvertToProduct(LangTopics))
    \/ Op(ToggleExpand)
    \/ Op(EditInstruction({InstrText}))
    \/ Op(EditGlobalInstruction({InstrText}))
    \/ Op(ClickRewriteSection)
    \/ Op(EnterRewriteSection)
    \/ Op(ClickRewriteSales)
    \/ Op(EnterRewriteSales)
    \/ Op(ClickRewriteAll)
    \/ Op(EnterRewriteAll)

SpecLang == InitReview(FlowDocs) /\ [][NextLang]_vars

(***************************************************************************)
(* Properties.                                                             *)
(***************************************************************************)
\* The remote calls of the workflow proper.
WorkflowCalls == {"d1", "plan", "exec", "finalize"}
Count(S, pc) == Cardinality({r \in S : r.pc = pc})
CountAlike(S, r) == Cardinality(Alike(S, r))

\* A handler is invoked in this step.
HandlerStarts == Cardinality(runs') > Cardinality(runs)
\* A workflow handler issues a remote call in this step.
CallIssued == \E pc \in {"d1", "plan", "exec"} : Count(runs', pc) > Count(runs, pc)
\* The response of a call of handler r is handled in this step.
Responded(r) == CountAlike(runs', r) < CountAlike(runs, r)

\* C1: a research-check lookup issued for topic T1 whose response (success
\* or transport failure) arrives when another topic T2 (possibly the empty
\* one) is current does not change the Gate status or source file shown.
C1_NoCrossTopicLeakage ==
    [][\A t \in Topics :
          (checkCalls'[t] < checkCalls[t] /\ t # monetizeTopic)
              => researchCheck' = researchCheck]_vars

\* C2: there are never two outstanding calls among research-run, plan,
\* execute and finalize.
C2_AtMostOneCallInFlight ==
    Cardinality({r \in runs : r.pc \in WorkflowCalls}) <= 1

\* C3: while the status is running or running_d1 a generate request is a
\* no-op: no second handler is invoked, so the plan call is issued only by the
\* handler that started the run (at its start or after its re-check) and the
\* execute call only by a handler whose plan call has resolved.
C3_GenerateIdempotent ==
    [][/\ monetizeStatus \in {"running", "running_d1"} => ~HandlerStarts
       /\ Count(runs', "plan") > Count(runs, "plan")
              => HandlerStarts \/ Count(runs', "recheck") < Count(runs, "recheck")
       /\ Count(runs', "exec") > Count(runs, "exec")
              => Count(runs', "plan") < Count(runs, "plan")]_vars

\* C3 witness: a run whose plan call is outstanding, with the Generate button
\* rendered for a non-empty topic.
C3_Witness ==
    /\ monetizeStatus = "running"
    /\ GenerateVisible
    /\ Truthy(monetizeTopic)
    /\ \E r \in runs : r.pc = "plan" /\ ~r.abandoned

\* C4: a generate request moves the workflow from idle to running, issuing
\* the plan call, only if the Gate status at that moment is found.
C4_GenerateNeedsFound ==
    [][(monetizeStatus = "idle" /\ monetizeStatus' = "running" /\ HandlerStarts)
          => researchCheck.status = "found"]_vars

\* C5: with Gate status missing a generate request starts no handler (the
\* status becomes needs_research, not running), and while the status is
\* needs_research no research-run, plan or execute call is issued except by
\* one of the two choices of the prompt.
C5_NoCallBeforeChoice ==
    [][/\ (monetizeStatus \in {"idle", "error"} /\ researchCheck.status = "missing")
              => ~HandlerStarts
       /\ (monetizeStatus = "needs_research" /\ CallIssued) => HandlerStarts]_vars

\* C6: the response of a plan, execute or finalize call of a workflow the
\* operator has abandoned changes neither the workflow status, nor the
\* Document, nor the result message.
C6_LateResponseIgnored ==
    [][\A r \in runs :
          (r.abandoned /\ r.pc \in {"plan", "exec", "finalize"} /\ Responded(r))
              => UNCHANGED <<monetizeStatus, monetizeResult, generateData,
                             editedSections, editedSalesPage>>]_vars

\* The last outstanding section call of global rewrite g settles in this step.
LastSectionSettles(g) ==
    /\ g.pc \in {"sections", "rejected"}
    /\ settled'.call = "global"
    /\ Pending(g) = {settled'.unit}
    /\ CountAlike(globalRuns', g) < CountAlike(globalRuns, g)

\* The outcome of the call of section i of g once that step is taken.
ResultOf(g, i) == IF i \in Pending(g) THEN settled'.outcome ELSE g.results[i]

\* C7: once all section calls of a global rewrite have resolved, every section
\* whose own call succeeded holds the rewritten content, every section whose
\* own call failed holds its content unchanged, and the sales-page call is
\* issued if the sales page is present, whatever the outcomes of the section
\* calls.
C7_GlobalPerUnitOutcome ==
    [][\A g \in globalRuns :
          LastSectionSettles(g) =>
              /\ \A i \in 1..Len(g.results) :
                     IF ResultOf(g, i) = "success"
                     THEN editedSections'[i].content = ContentRewritten
                     ELSE editedSections'[i] = editedSections[i]
              /\ Truthy(g.sales_page) => \E h \in globalRuns' : h.pc = "sales"]_vars

\* C8: no scoped or global rewrite call is outstanding while a finalize call
\* is outstanding.
C8_RewriteNeverOverlapsFinalize ==
    ~(/\ \E r \in runs : r.pc = "finalize"
      /\ rewriteCalls # {} \/ globalRuns # {})

\* C9: no two scoped rewrite calls on the same unit are outstanding at the
\* same time.
C9_OneRewritePerUnit ==
    \A c, d \in rewriteCalls : c.unit = d.unit => c = d

\* C10: in review, a scoped rewrite of a section whose call fails (transport
\* error or non-success payload) leaves every section (content and title)
\* and the sales page unchanged and the workflow status in review.
C10_FailedSectionRewriteChangesNothing ==
    [][(/\ monetizeStatus = "review"
        /\ settled'.call = "section"
        /\ settled'.outcome # "success")
          => /\ editedSections' = editedSections
             /\ editedSalesPage' = editedSalesPage
             /\ monetizeStatus' = "review"]_vars

\* C10 witness: the call of a scoped rewrite of one of several sections has
\* just failed with a transport error, in review.
C10_Witness ==
    /\ monetizeStatus = "review"
    /\ settled.call = "section"
    /\ settled.outcome = "reject"
    /\ settled.unit \in 1..Len(editedSections)
    /\ Len(editedSections) >= 2

\* C11: when the finalize call fails (transport error, empty response or
\* error payload) the sections and the sales page are unchanged, the status
\* is error with a message and one revert to review is scheduled; when that
\* timer elapses the status is review, the message is cleared and the
\* document is still unchanged.
C11_FinalizeFailureReverts ==
    [][/\ (settled'.call = "finalize" /\ settled'.outcome # "ok")
              => /\ UNCHANGED <<generateData, editedSections, editedSalesPage>>
                 /\ monetizeStatus' = "error"
                 /\ monetizeResult' = Msg("finalize")
                 /\ revertTimers' = [revertTimers EXCEPT !["review"] = @ + 1]
       /\ revertTimers'["review"] < revertTimers["review"]
              => /\ UNCHANGED <<generateData, editedSections, editedSalesPage>>
                 /\ monetizeStatus' = "review"
                 /\ monetizeResult' = ResultNull]_vars

\* C11 witness: the finalize call of a manually edited course has just been
\* rejected and the revert to review is pending.
C11_Witness ==
    /\ settled.call = "finalize"
    /\ settled.outcome = "reject"
    /\ monetizeStatus = "error"
    /\ revertTimers["review"] = 1
    /\ generateData.present
    /\ editedSections # generateData.sections

\* C12: from status running_d1, when the research-run call completes, with
\* success or with failure, the status does not become error and the handler
\* re-queries the Gate; and when that re-query is answered the plan call is
\* issued in status running.
C12_ResearchBestEffort ==
    [][/\ (settled'.call = "d1" /\ monetizeStatus = "running_d1")
           => /\ monetizeStatus' # "error"
              /\ Count(runs', "recheck") > Count(runs, "recheck")
       /\ (settled'.call = "recheck" /\ settled'.outcome = "ok"
                                     /\ monetizeStatus = "running_d1")
           => /\ monetizeStatus' = "running"
              /\ Count(runs', "plan") > Count(runs, "plan")]_vars

\* A revert timer fires in this step.
TimerFires(timer) == revertTimers'[timer] < revertTimers[timer]

\* C13: the execute call is issued only in the step in which the plan call
\* returns successfully, and it carries that response's plan payload; a
\* failed plan call issues no execute call; and apart from the revert after
\* a finalize failure, review is entered and the Document created only in
\* the step in which the execute call returns successfully.
C13_PlanPrecedesExecute ==
    [][/\ Count(runs', "exec") > Count(runs, "exec")
              => settled'.call = "plan" /\ settled'.outcome = "ok"
       /\ \A r \in runs' : r.pc = "exec" => r.plan = PlanPayload
       /\ (settled'.call = "plan" /\ settled'.outcome # "ok")
              => Count(runs', "exec") <= Count(runs, "exec")
       /\ (monetizeStatus # "review" /\ monetizeStatus' = "review"
              /\ ~TimerFires("review"))
              => settled'.call = "exec" /\ settled'.outcome = "ok"
       /\ (generateData' # generateData /\ generateData'.present)
              => settled'.call = "exec" /\ settled'.outcome = "ok"]_vars

\* C13 witness: the plan call has just returned successfully and the execute
\* call, carrying the plan, is outstanding while the status is still running.
C13_Witness ==
    /\ settled.call = "plan"
    /\ settled.outcome = "ok"
    /\ monetizeStatus = "running"
    /\ \E r \in runs : r.pc = "exec" /\ r.plan = PlanPayload

\* C14: when the execute call succeeds the status becomes review and, in the
\* same step, the Document holds exactly the sections of the response in
\* their order, the response's sales page (empty if the response has none)
\* and no per-unit instruction.
C14_ReviewEntryCreatesDocument ==
    [][(settled'.call = "exec" /\ settled'.outcome = "ok")
          => /\ monetizeStatus' = "review"
             /\ generateData' \in ExecPayloads
             /\ editedSections' = generateData'.sections
             /\ editedSalesPage' = (IF generateData'.sales_page = Undefined
                                    THEN Empty ELSE generateData'.sales_page)
             /\ \A u \in Units : sectionInstructions'[u] = Empty]_vars

\* C14 witness: review has just been entered with a course of several
\* sections whose payload had no sales page.
C14_Witness ==
    /\ settled.call = "exec"
    /\ settled.outcome = "ok"
    /\ monetizeStatus = "review"
    /\ Len(editedSections) = MaxSections
    /\ generateData.sales_page = Undefined
    /\ editedSalesPage = Empty

\* C15: when the plan call or the execute call fails (transport error, empty
\* response or error payload) the status becomes error with a message, and
\* the Document is neither created nor replaced.
C15_GenerationFailureIsError ==
    [][(settled'.call \in {"plan", "exec"} /\ settled'.outcome # "ok")
          => /\ monetizeStatus' = "error"
             /\ monetizeResult' # ResultNull
             /\ UNCHANGED <<generateData, editedSections, editedSalesPage>>]_vars

\* C15 witness: the execute call has just answered an error payload.
C15_Witness ==
    /\ settled.call = "exec"
    /\ settled.outcome = "app_error"
    /\ monetizeStatus = "error"
    /\ monetizeResult = Msg("exec")

\* C16: an error left by a research or generation failure is eventually
\* followed by status idle with the message cleared, and an error left by a
\* finalize failure by status review with the message cleared, whatever the
\* operator does in between.
C16_ErrorAutoRecovers ==
    /\ (monetizeStatus = "error" /\ monetizeResult \in {Msg("d1"), Msg("plan"), Msg("exec")})
          ~> (monetizeStatus = "idle" /\ monetizeResult = ResultNull)
    /\ (monetizeStatus = "error" /\ monetizeResult = Msg("finalize"))
          ~> (monetizeStatus = "review" /\ monetizeResult = ResultNull)

\* C16 witness: the status is error after a failed research run, with the
\* revert to idle pending.
C16_Witness ==
    /\ monetizeStatus = "error"
    /\ monetizeResult = Msg("d1")
    /\ revertTimers["idle"] > 0

\* C17: a transport failure of a scoped rewrite call (of a section or of the
\* sales page) is caught by its handler: the unit is left unchanged and the
\* handler runs to its end, releasing the unit's busy mark.
C17_RewriteFailureCaught ==
    [][(settled'.call \in {"section", "sales"} /\ settled'.outcome = "reject")
          => /\ UNCHANGED <<editedSections, editedSalesPage, monetizeStatus>>
             /\ rewritingIdx' = NoUnit]_vars

\* C18: a topic edit starts no lookup itself and replaces the pending timer
\* by one for the new topic, or by none if the new topic is empty or blank;
\* a lookup is issued only by the pending timer, once, and for the topic
\* that is current.
C18_OneLookupPerQuietWindow ==
    [][/\ monetizeTopic' # monetizeTopic
              => /\ checkCalls' = checkCalls
                 /\ researchDebounce' =
                        IF Trim(monetizeTopic') = <<>> THEN NoTimer
                        ELSE [pending |-> TRUE, topic |-> monetizeTopic']
       /\ \A t \in Topics :
              checkCalls'[t] > checkCalls[t]
                  => /\ checkCalls'[t] = checkCalls[t] + 1
                     /\ t = monetizeTopic
                     /\ Trim(t) # <<>>
                     /\ researchDebounce = [pending |-> TRUE, topic |-> t]
                     /\ researchDebounce' = NoTimer
                     /\ \A u \in Topics \ {t} : checkCalls'[u] <= checkCalls[u]]_vars

\* C18 witness: the lookup of an earlier topic is outstanding, the topic has
\* been edited since, and the timer of the last edit is pending with no
\* lookup issued for it yet.
C18_Witness ==
    /\ monetizeTopic = TopicJa
    /\ researchDebounce = [pending |-> TRUE, topic |-> TopicJa]
    /\ checkCalls[TopicEn] = 1
    /\ checkCalls[TopicJa] = 0
    /\ checkCalls[TopicBlank] = 0

\* C19: the section calls of two global rewrites are never outstanding
\* together, and no global rewrite is started while the global-busy flag is
\* set.
C19_SingleGlobalRewrite ==
    [][/\ Cardinality({g \in globalRuns' : Pending(g) # {}}) <= 1
       /\ globalRewriting => Cardinality(globalRuns') <= Cardinality(globalRuns)]_vars

\* The operator starts over from review in this step.
StartsOver ==
    monetizeStatus = "review" /\ generateData.present /\ ~generateData'.present

\* C20: starting over from review leaves status idle and no Document, and
\* the Review session entered next shows only what its own execute call
\* returned: no global instruction, no per-section or sales-page instruction
\* and no content of the session before.
C20_StartOverDiscardsAll ==
    [][/\ StartsOver => monetizeStatus' = "idle"
       /\ (settled'.call = "exec" /\ settled'.outcome = "ok")
              => /\ globalInstruction' = Empty
                 /\ \A u \in Units : sectionInstructions'[u] = Empty
                 /\ editedSections' = generateData'.sections
                 /\ editedSalesPage' = generateData'.sales_page]_vars

\* C21: the response of a rewrite call clears an instruction only when that
\* call succeeded: a failed scoped rewrite leaves the per-unit instructions
\* as they are, a successful one clears its own unit's only, and a failed
\* call of a global rewrite leaves the global instruction as it is.
C21_InstructionRetention ==
    [][/\ settled'.call \in {"section", "sales"}
              => sectionInstructions' =
                     IF settled'.outcome = "success"
                     THEN [sectionInstructions EXCEPT ![settled'.unit] = Empty]
                     ELSE sectionInstructions
       /\ (settled'.call = "global" /\ settled'.outcome # "success")
              => globalInstruction' = globalInstruction]_vars

\* C22: the finalize request carries the topic, the sections and the sales
\* page as they are when finalize is requested; when the call returns
\* success the status becomes finalized, the result is the returned
\* saved_path and the document is not changed.
C22_FinalizeSuccess ==
    [][/\ HandlerStarts
              => \A r \in runs' \ runs :
                     r.pc = "finalize"
                         => /\ r.topic = monetizeTopic
                            /\ r.sections = editedSections
                            /\ r.sales_page = editedSalesPage
       /\ (settled'.call = "finalize" /\ settled'.outcome = "ok")
              => /\ monetizeStatus' = "finalized"
                 /\ monetizeResult' = SavedPath
                 /\ UNCHANGED <<generateData, editedSections, editedSalesPage>>]_vars

\* C22 witness: a manually edited course has just been finalized.
C22_Witness ==
    /\ settled.call = "finalize"
    /\ settled.outcome = "ok"
    /\ monetizeStatus = "finalized"
    /\ monetizeResult = SavedPath
    /\ editedSections # generateData.sections

\* C23: when the lookup for the current topic resolves the Gate becomes
\* found or missing with the file of the response, or idle without a file
\* if the call failed; and from a topic edit until the lookup of that edit
\* resolves, so at least while its timer is pending, the Gate is checking.
C23_GateResultMapping ==
    [][/\ \A t \in Topics :
              (checkCalls'[t] < checkCalls[t] /\ t = monetizeTopic)
                  => \/ researchCheck' = GateIdle
                     \/ \E resp \in CheckResponses : researchCheck' = GateOf(resp)
       /\ researchDebounce'.pending => researchCheck' = GateChecking]_vars

\* The indices at which the sections differ before and after this step.
Touched == {i \in 1..Len(editedSections) : editedSections'[i] # editedSections[i]}

\* C24: no step of a Review session changes the number of sections; a manual
\* edit changes one section; the response of a scoped rewrite changes at most
\* the content of the section it was issued for; and no response of a
\* rewrite, scoped or global, changes a title.
C24_SectionOrderPreserved ==
    [][/\ Len(editedSections') = Len(editedSections)
       /\ settled'.call = "none" => Cardinality(Touched) <= 1
       /\ settled'.call = "section" => Touched \subseteq {settled'.unit}
       /\ settled'.call # "none"
              => \A i \in 1..Len(editedSections) :
                     editedSections'[i].title = editedSections[i].title]_vars

\* C24 witness: a global rewrite has just rewritten every section of a course
\* whose second title had been edited by hand.
C24_Witness ==
    /\ settled.call = "global"
    /\ settled.outcome = "success"
    /\ Len(editedSections) = 2
    /\ editedSections[2].title = TitleEdited
    /\ \A i \in 1..Len(editedSections) : editedSections[i].content = ContentRewritten

\* The language tag the preference l and the topic t stand for.
C25_Tag(l, t) ==
    CASE l = "ja" -> "ja"
      [] l = "en" -> "en"
      [] OTHER -> IF \E i \in 1..Len(t) : t[i] >= 12288 /\ t[i] <= 40959
                  THEN "ja" ELSE "en"

\* C25: every rewrite request, of a section, of the sales page (button and
\* Enter) and of the global rewrite, carries the language tag of the
\* preference and the topic held when its handler was invoked: the preference
\* when it is ja or en, and for auto ja if the topic has a character in
\* U+3000..U+9FFF and en otherwise.
C25_SameLanguageTag ==
    [][/\ Cardinality(rewriteCalls') > Cardinality(rewriteCalls)
           => \A c \in rewriteCalls' \ rewriteCalls :
                  c.language = C25_Tag(lang, monetizeTopic)
       /\ Cardinality(globalRuns') > Cardinality(globalRuns)
           => \A g \in globalRuns' \ globalRuns :
                  g.language = C25_Tag(lang, monetizeTopic)]_vars

\* C25 witness: with the preference auto and the topic the single character
\* U+3000 a sales-page rewrite was sent as ja, next to a section rewrite sent
\* as en under the preference en and a global rewrite sent as ja.
C25_Witness ==
    /\ lang = "auto"
    /\ monetizeTopic = TopicLow
    /\ \E c \in rewriteCalls : c.unit = SalesUnit /\ c.language = "ja"
    /\ \E c \in rewriteCalls : c.unit = 1 /\ c.language = "en"
    /\ \E g \in globalRuns : g.language = "ja"

\* C26: a revert timer that fires while the workflow is no longer in error
\* but in running, review, finalizing or finalized changes neither the
\* status nor the result message.
C26_TimerActsOnItsErrorOnly ==
    [][\A timer \in {"idle", "review"} :
           (/\ TimerFires(timer)
            /\ monetizeStatus \in {"running", "review", "finalizing", "finalized"})
              => UNCHANGED <<monetizeStatus, monetizeResult>>]_vars

\* C27: whenever the status is review, finalizing or finalized the generated
\* Document is present, so that the review panel, which replaces the generate
\* control in these statuses, is rendered.
C27_DocumentInReviewStage ==
    monetizeStatus \in {"review", "finalizing", "finalized"}
        => /\ generateData.present
           /\ GenerateVisible \/ ReviewVisible

\* C28: when the result of a scoped rewrite is written to a section, and
\* when the results of a global rewrite are written to the sections, each
\* section written still holds the content that was sent in the request.
C28_NoLostUpdate ==
    [][/\ (settled'.call = "section" /\ settled'.outcome = "success")
           => \A c \in rewriteCalls \ rewriteCalls' :
                  editedSections[c.unit].content = c.content
       /\ settled'.call = "global"
           => \A i \in Touched :
                  \E g \in globalRuns \ globalRuns' :
                      editedSections[i].content = g.sections[i].content]_vars

\* C29: when the finalize call succeeds the sections and the sales page held
\* are the ones that were sent, and while the status stays finalized they do
\* not change.
C29_FinalizedIsFinal ==
    [][/\ (settled'.call = "finalize" /\ settled'.outcome = "ok")
           => \A r \in runs \ runs' :
                  /\ editedSections' = r.sections
                  /\ editedSalesPage' = r.sales_page
       /\ (monetizeStatus = "finalized" /\ monetizeStatus' = "finalized")
           => UNCHANGED <<editedSections, editedSalesPage>>]_vars

\* C30: the rewrite indicator names a unit only while a scoped rewrite call
\* of that unit is outstanding, the global flag is set only while a global
\* rewrite is outstanding, and with no rewrite call outstanding both are
\* clear.
C30_BusyFlagsExact ==
    /\ rewritingIdx # NoUnit => \E c \in rewriteCalls : c.unit = rewritingIdx
    /\ globalRewriting => globalRuns # {}
    /\ (rewriteCalls = {} /\ globalRuns = {})
           => (rewritingIdx = NoUnit /\ ~globalRewriting)

====
